---- MODULE Spec2Model ----
(***************************************************************************)
(* Model of the ATENA code analyzer (src/code_analyzer.py).                *)
(*                                                                         *)
(* A source file is abstracted to what the analyzer reads of it:           *)
(*   - whether read_text() decodes it,                                     *)
(*   - what ast.parse() does with it (a tree, a SyntaxError with its       *)
(*     lineno, or another exception such as RecursionError),               *)
(*   - the tree: a sequence of nodes in source order, node i carrying its  *)
(*     kind, its parent (0 is the Module node) and the attributes the      *)
(*     rules read (lineno, end_lineno, len(args.args), get_docstring,      *)
(*     len(values)); the positions of different nodes are not tied to one  *)
(*     another, the rules read each node's own,                            *)
(*   - the lines of content.split("\n"), each abstracted to its length     *)
(*     and to what the four regular expressions find in it.                *)
(*                                                                         *)
(* Spec      : PythonAnalyzer.analyze called on one file after another.    *)
(* WalkSpec  : CodeAnalyzer.analyze_path run on a root of a small file     *)
(*             system, one rglob match per step.                           *)
(* RepeatSpec: one PythonAnalyzer object called again and again on files   *)
(*             that are rewritten between the calls.                       *)
(***************************************************************************)
EXTENDS Integers, Sequences, FiniteSets, TLC

VARIABLES
    pc,        \* analyze: "idle" | "returned" | "raised"
    content,   \* analyze: the file content of the current call
    result,    \* analyze: the AnalysisResult returned by the current call
    wpc,       \* analyze_path: "idle" | "walking" | "returned" | "raised"
    fs,        \* the files below the root directory (a set of entries)
    root,      \* the path given to analyze_path
    pending,   \* matches of rglob not yet yielded
    results,   \* analyze_path: the list `results`
    log,       \* the log events emitted so far
    calls      \* the calls made on the PythonAnalyzer object, oldest first

vars == <<pc, content, result, wpc, fs, root, pending, results, log, calls>>

None == "None"
\* Python's None where the other values are integers
NoLine == 0 - 1

(***************************************************************************)
(* Program constants.                                                      *)
(***************************************************************************)
MAX_FUNCTION_LENGTH == 50
MAX_COMPLEXITY == 10
MAX_PARAMETERS == 5
MAX_METHODS == 20
MAX_LINE_LENGTH == 120

(***************************************************************************)
(* Bounds of the model.                                                    *)
(***************************************************************************)
\* size of a file: its nodes, the attributes of its nodes that differ from
\* the plainest node of the kind, its hand-picked lines, and one for a file
\* that does not decode or does not parse
MaxSize == 3
\* size of a file system: its files and the directories on the way to each
MaxFsSize == 3
\* calls made on one analyzer object
MaxCalls == 3

Max(a, b) == IF a >= b THEN a ELSE b

(***************************************************************************)
(* Trees.  Node i of a tree stands on line i.                              *)
(***************************************************************************)
FunctionKinds == {"FunctionDef", "AsyncFunctionDef"}
DecisionKinds == {"If", "While", "For", "ExceptHandler"}
DeclarationKinds == FunctionKinds \cup {"ClassDef"}
\* kinds whose nodes have a body of further nodes
ContainerKinds == DeclarationKinds \cup DecisionKinds
NodeKinds == ContainerKinds \cup {"BoolOp", "IfExp", "Pass"}

Node(k, p, l, e, a, d, v) ==
    [kind |-> k, parent |-> p, lineno |-> l, end_lineno |-> e,
     args |-> a, docstring |-> d, values |-> v]

\* the plainest node of kind k on line i below parent p: one line long, at
\* most MAX_PARAMETERS parameters, a docstring, two operands
PlainNode(k, p, i) ==
    Node(k, p, i, i,
         IF k \in FunctionKinds THEN MAX_PARAMETERS ELSE 0,
         IF k \in DeclarationKinds THEN "doc" ELSE None,
         IF k = "BoolOp" THEN 2 ELSE 0)

\* the attributes of nd that differ from the plainest node of its kind
NodeSize(nd) ==
    1 + (IF nd.end_lineno # nd.lineno THEN 1 ELSE 0)
      + (IF nd.kind \in FunctionKinds /\ nd.args # MAX_PARAMETERS THEN 1 ELSE 0)
      + (IF nd.kind \in DeclarationKinds /\ nd.docstring # "doc" THEN 1 ELSE 0)
      + (IF nd.kind = "BoolOp" /\ nd.values # 2 THEN 1 ELSE 0)

RECURSIVE TreeSize(_)
TreeSize(t) == IF t = <<>> THEN 0 ELSE NodeSize(Head(t)) + TreeSize(Tail(t))

ParentsIn(t) == {0} \cup {j \in 1..Len(t) : t[j].kind \in ContainerKinds}

\* the line a tree needs the text to reach
RECURSIVE LastLine(_)
LastLine(t) ==
    IF t = <<>> THEN 1
    ELSE LET nd == t[Len(t)]
             e == IF nd.end_lineno = NoLine THEN nd.lineno ELSE nd.end_lineno
         IN Max(e, LastLine(SubSeq(t, 1, Len(t) - 1)))

(***************************************************************************)
(* Lines.  len is len(line); markers and bare_excepts count the places     *)
(* where the pending-task and the bare-except expressions match; print is  *)
(* whether the line starts with a print call; noqa whether it contains     *)
(* "# noqa"; blank and comment are what line.strip() shows.                *)
(***************************************************************************)
Line(n, m, b, p, q, bl, c) ==
    [len |-> n, markers |-> m, bare_excepts |-> b, print |-> p, noqa |-> q,
     blank |-> bl, comment |-> c]

PlainLine == Line(10, 0, 0, FALSE, FALSE, FALSE, FALSE)

LineKinds ==
    { PlainLine,
      Line(0, 0, 0, FALSE, FALSE, TRUE, FALSE),
      Line(MAX_LINE_LENGTH, 0, 0, FALSE, FALSE, FALSE, FALSE),
      Line(MAX_LINE_LENGTH + 1, 0, 0, FALSE, FALSE, FALSE, FALSE),
      Line(20, 2, 0, FALSE, FALSE, FALSE, TRUE),
      Line(20, 0, 2, FALSE, FALSE, FALSE, FALSE),
      Line(20, 0, 0, TRUE, FALSE, FALSE, FALSE),
      Line(20, 0, 0, TRUE, TRUE, FALSE, FALSE),
      Line(MAX_LINE_LENGTH + 1, 1, 1, TRUE, FALSE, FALSE, FALSE) }

(***************************************************************************)
(* File contents.  read is what read_text() does, parse what ast.parse()   *)
(* does, errline the lineno of the SyntaxError (NoLine when it has none),  *)
(* head the first lines of the text; the lines after them are plain.       *)
(***************************************************************************)
Content(r, p, el, t, h) ==
    [read |-> r, parse |-> p, errline |-> el, tree |-> t, head |-> h]

EmptyFile == Content("ok", "ok", NoLine, <<>>, <<>>)

ContentSize(c) ==
    TreeSize(c.tree) + Len(c.head)
        + (IF c.read # "ok" \/ c.parse # "ok" THEN 1 ELSE 0)

\* content.split("\n")
split(c) ==
    [i \in 1..Max(LastLine(c.tree), Len(c.head)) |->
        IF i <= Len(c.head) THEN c.head[i] ELSE PlainLine]

(***************************************************************************)
(* CodeIssue and AnalysisResult.  message holds the values the message     *)
(* text is formatted from.                                                 *)
(***************************************************************************)
CodeIssue(f, l, t, s, m) ==
    [file |-> f, line |-> l, issue_type |-> t, severity |-> s, message |-> m]

NoMetrics == [k \in {} |-> 0]

AnalysisResult(f, is, ms) == [file_path |-> f, issues |-> is, metrics |-> ms]

(***************************************************************************)
(* ast.walk: breadth first from a node, children in source order.          *)
(***************************************************************************)
Kind(t, i) == IF i = 0 THEN "Module" ELSE t[i].kind

Children(t, p) ==
    SelectSeq([j \in 1..Len(t) |-> j], LAMBDA j : t[j].parent = p)

RECURSIVE WalkFrom(_, _)
WalkFrom(t, todo) ==
    IF todo = <<>> THEN <<>>
    ELSE <<Head(todo)>> \o WalkFrom(t, Tail(todo) \o Children(t, Head(todo)))

walk(t, i) == WalkFrom(t, <<i>>)

(***************************************************************************)
(* PythonAnalyzer.                                                         *)
(***************************************************************************)
ComplexityStep(t, i) ==
    IF Kind(t, i) \in {"If", "While", "For", "ExceptHandler"} THEN 1
    ELSE IF Kind(t, i) = "BoolOp" THEN t[i].values - 1
    ELSE 0

RECURSIVE ComplexitySum(_, _)
ComplexitySum(t, ns) ==
    IF ns = <<>> THEN 0
    ELSE ComplexityStep(t, Head(ns)) + ComplexitySum(t, Tail(ns))

\* the walk of line 157 stopping at the functions and classes declared
\* inside node i
RECURSIVE WalkFrom_OwnBody(_, _, _)
WalkFrom_OwnBody(t, todo, i) ==
    IF todo = <<>> THEN <<>>
    ELSE <<Head(todo)>>
            \o WalkFrom_OwnBody(t,
                    Tail(todo) \o (IF Head(todo) # i
                                        /\ Kind(t, Head(todo)) \in DeclarationKinds
                                    THEN <<>> ELSE Children(t, Head(todo))),
                    i)

_calculate_complexity_OwnBody(t, i) ==
    1 + ComplexitySum(t, WalkFrom_OwnBody(t, <<i>>, i))

_calculate_complexity(t, i) == 1 + ComplexitySum(t, walk(t, i))

func_lines(nd) ==
    IF nd.end_lineno # NoLine /\ nd.end_lineno # 0
    THEN nd.end_lineno - nd.lineno + 1 ELSE 0

IsFunction(t, i) == Kind(t, i) = "FunctionDef"

LongFunctionRule(f, nd) ==
    IF func_lines(nd) > MAX_FUNCTION_LENGTH
    THEN <<CodeIssue(f, nd.lineno, "LONG_FUNCTION", "MEDIUM",
                     <<func_lines(nd), MAX_FUNCTION_LENGTH>>)>>
    ELSE <<>>

\* not ast.get_docstring(node): there is none, or it is empty
NoDocstring(nd) == nd.docstring = None \/ nd.docstring = ""

FunctionDocstringRule(f, nd) ==
    IF NoDocstring(nd)
    THEN <<CodeIssue(f, nd.lineno, "MISSING_DOCSTRING", "LOW", <<"Function">>)>>
    ELSE <<>>

ParameterRule(f, nd) ==
    IF nd.args > MAX_PARAMETERS
    THEN <<CodeIssue(f, nd.lineno, "TOO_MANY_PARAMETERS", "MEDIUM", <<nd.args>>)>>
    ELSE <<>>

ComplexityRule(f, t, i) ==
    IF _calculate_complexity(t, i) > MAX_COMPLEXITY
    THEN <<CodeIssue(f, t[i].lineno, "HIGH_COMPLEXITY", "HIGH",
                     <<_calculate_complexity(t, i), MAX_COMPLEXITY>>)>>
    ELSE <<>>

FunctionRules(f, t, i) ==
    LongFunctionRule(f, t[i]) \o FunctionDocstringRule(f, t[i])
        \o ParameterRule(f, t[i]) \o ComplexityRule(f, t, i)

RECURSIVE FunctionsOver(_, _, _)
FunctionsOver(f, t, ns) ==
    IF ns = <<>> THEN <<>>
    ELSE (IF IsFunction(t, Head(ns)) THEN FunctionRules(f, t, Head(ns)) ELSE <<>>)
            \o FunctionsOver(f, t, Tail(ns))

_analyze_functions(f, t) == FunctionsOver(f, t, walk(t, 0))

methods(t, i) == SelectSeq(Children(t, i), LAMBDA j : t[j].kind = "FunctionDef")

ClassRules(f, t, i) ==
    (IF NoDocstring(t[i])
     THEN <<CodeIssue(f, t[i].lineno, "MISSING_DOCSTRING", "LOW", <<"Class">>)>>
     ELSE <<>>)
    \o (IF Len(methods(t, i)) > MAX_METHODS
        THEN <<CodeIssue(f, t[i].lineno, "LARGE_CLASS", "MEDIUM", <<Len(methods(t, i))>>)>>
        ELSE <<>>)

RECURSIVE ClassesOver(_, _, _)
ClassesOver(f, t, ns) ==
    IF ns = <<>> THEN <<>>
    ELSE (IF Kind(t, Head(ns)) = "ClassDef" THEN ClassRules(f, t, Head(ns)) ELSE <<>>)
            \o ClassesOver(f, t, Tail(ns))

_analyze_classes(f, t) == ClassesOver(f, t, walk(t, 0))

\* the line rules with the length compared by >=
LineRules_Inclusive(f, i, ln) ==
    (IF ln.len >= MAX_LINE_LENGTH
     THEN <<CodeIssue(f, i, "LINE_TOO_LONG", "LOW", <<ln.len>>)>> ELSE <<>>)
    \o (IF ln.markers > 0
        THEN <<CodeIssue(f, i, "PENDING_TASK", "LOW", <<>>)>> ELSE <<>>)
    \o (IF ln.bare_excepts > 0
        THEN <<CodeIssue(f, i, "BARE_EXCEPT", "HIGH", <<>>)>> ELSE <<>>)
    \o (IF ln.print /\ ~ln.noqa
        THEN <<CodeIssue(f, i, "PRINT_STATEMENT", "LOW", <<>>)>> ELSE <<>>)

LineRules(f, i, ln) ==
    (IF ln.len > MAX_LINE_LENGTH
     THEN <<CodeIssue(f, i, "LINE_TOO_LONG", "LOW", <<ln.len>>)>> ELSE <<>>)
    \o (IF ln.markers > 0
        THEN <<CodeIssue(f, i, "PENDING_TASK", "LOW", <<>>)>> ELSE <<>>)
    \o (IF ln.bare_excepts > 0
        THEN <<CodeIssue(f, i, "BARE_EXCEPT", "HIGH", <<>>)>> ELSE <<>>)
    \o (IF ln.print /\ ~ln.noqa
        THEN <<CodeIssue(f, i, "PRINT_STATEMENT", "LOW", <<>>)>> ELSE <<>>)

\* the loop of line 168 with enumerate(lines) counting from 0
RECURSIVE LinesFrom_ZeroBased(_, _, _)
LinesFrom_ZeroBased(f, ls, i) ==
    IF i > Len(ls) THEN <<>>
    ELSE LineRules(f, i - 1, ls[i]) \o LinesFrom_ZeroBased(f, ls, i + 1)

RECURSIVE LinesFrom(_, _, _)
LinesFrom(f, ls, i) ==
    IF i > Len(ls) THEN <<>>
    ELSE LineRules(f, i, ls[i]) \o LinesFrom(f, ls, i + 1)

_check_common_issues(f, ls) == LinesFrom(f, ls, 1)

Count(ls, P(_)) == Len(SelectSeq(ls, P))

Metrics(ls) ==
    [total_lines |-> Len(ls),
     blank_lines |-> Count(ls, LAMBDA ln : ln.blank),
     comment_lines |-> Count(ls, LAMBDA ln : ln.comment)]

NoResult == AnalysisResult(<<>>, <<>>, NoMetrics)

Returned(r) == [outcome |-> "return", exc |-> None, value |-> r]
Raised(e) == [outcome |-> "raise", exc |-> e, value |-> NoResult]
NotCalled == [outcome |-> None, exc |-> None, value |-> NoResult]

SyntaxErrorResult(f, c) ==
    AnalysisResult(f,
        <<CodeIssue(f, IF c.errline = NoLine \/ c.errline = 0 THEN 0 ELSE c.errline,
                    "SYNTAX_ERROR", "HIGH", <<"msg">>)>>,
        NoMetrics)

\* analyze without the early return of line 58
analyze_NoEarlyReturn(f, c) ==
    IF c.read # "ok" THEN Raised(c.read)
    ELSE IF c.parse \notin {"ok", "SyntaxError"} THEN Raised(c.parse)
    ELSE Returned(AnalysisResult(f,
            (IF c.parse = "SyntaxError" THEN SyntaxErrorResult(f, c).issues ELSE <<>>)
                \o _check_common_issues(f, split(c)),
            Metrics(split(c))))

\* analyze with line 44 handing every result the one list of issues that
\* the results before it hold as well
analyze_SharedIssues(f, c) ==
    LET shared == IF calls = <<>> THEN <<>>
                  ELSE calls[Len(calls)].call.value.issues
    IN IF c.read # "ok" THEN Raised(c.read)
       ELSE IF c.parse = "SyntaxError"
       THEN Returned(AnalysisResult(f, shared \o SyntaxErrorResult(f, c).issues,
                                    NoMetrics))
       ELSE IF c.parse # "ok" THEN Raised(c.parse)
       ELSE Returned(AnalysisResult(f,
               shared \o _analyze_functions(f, c.tree) \o _analyze_classes(f, c.tree)
                   \o _check_common_issues(f, split(c)),
               Metrics(split(c))))

analyze(f, c) ==
    IF c.read # "ok" THEN Raised(c.read)
    ELSE IF c.parse = "SyntaxError" THEN Returned(SyntaxErrorResult(f, c))
    ELSE IF c.parse # "ok" THEN Raised(c.parse)
    ELSE Returned(AnalysisResult(f,
            _analyze_functions(f, c.tree) \o _analyze_classes(f, c.tree)
                \o _check_common_issues(f, split(c)),
            Metrics(split(c))))

(***************************************************************************)
(* Spec: a file is written, PythonAnalyzer.analyze is called on it, the    *)
(* file is written further and analyzed again.                             *)
(***************************************************************************)
ThePath == <<"a", ".py">>

NoRoot == [type |-> None, path |-> <<>>, content |-> EmptyFile]

Init ==
    /\ pc = "idle" /\ content = EmptyFile /\ result = NotCalled
    /\ wpc = "idle" /\ fs = {} /\ root = NoRoot /\ pending = {}
    /\ results = <<>> /\ log = <<>> /\ calls = <<>>

CanWrite == pc = "idle" /\ ContentSize(content) < MaxSize

Written(c) ==
    /\ content' = c
    /\ UNCHANGED <<pc, result, wpc, fs, root, pending, results, log, calls>>

\* a statement or expression is appended to the source
WriteNode ==
    /\ CanWrite
    /\ \E k \in NodeKinds, p \in ParentsIn(content.tree) :
          Written([content EXCEPT
              !.tree = Append(@, PlainNode(k, p, Len(content.tree) + 1))])

\* a function is made longer, or its end position is dropped from the tree
WriteEnd ==
    /\ CanWrite
    /\ \E i \in 1..Len(content.tree) :
          /\ content.tree[i].kind \in FunctionKinds
          /\ content.tree[i].end_lineno = content.tree[i].lineno
          /\ \E e \in {NoLine, i + MAX_FUNCTION_LENGTH - 1, i + MAX_FUNCTION_LENGTH} :
                Written([content EXCEPT !.tree[i].end_lineno = e])

\* a function is given one parameter more
WriteParameter ==
    /\ CanWrite
    /\ \E i \in 1..Len(content.tree) :
          /\ content.tree[i].kind \in FunctionKinds
          /\ content.tree[i].args = MAX_PARAMETERS
          /\ Written([content EXCEPT !.tree[i].args = MAX_PARAMETERS + 1])

\* the docstring of a function or a class is removed, or emptied
DropDocstring ==
    /\ CanWrite
    /\ \E i \in 1..Len(content.tree) :
          /\ content.tree[i].kind \in DeclarationKinds
          /\ content.tree[i].docstring = "doc"
          /\ \E d \in {None, ""} : Written([content EXCEPT !.tree[i].docstring = d])

\* a boolean combination is given more operands
WriteOperands ==
    /\ CanWrite
    /\ \E i \in 1..Len(content.tree) :
          /\ content.tree[i].kind = "BoolOp"
          /\ content.tree[i].values = 2
          /\ \E v \in {MAX_COMPLEXITY, MAX_COMPLEXITY + 1} :
                Written([content EXCEPT !.tree[i].values = v])

\* one of the first lines of the text is written
WriteLine ==
    /\ CanWrite
    /\ \E ln \in LineKinds : Written([content EXCEPT !.head = Append(@, ln)])

\* the source is broken: ast.parse raises a SyntaxError, with or without a
\* line, or a RecursionError
BreakSyntax ==
    /\ CanWrite
    /\ content.parse = "ok" /\ content.read = "ok"
    /\ \/ \E el \in {NoLine} \cup (1..Len(split(content))) :
             Written([content EXCEPT !.parse = "SyntaxError", !.errline = el])
       \/ Written([content EXCEPT !.parse = "RecursionError"])

\* the bytes of the file are no longer valid UTF-8
BreakEncoding ==
    /\ CanWrite
    /\ content.parse = "ok" /\ content.read = "ok"
    /\ Written([content EXCEPT !.read = "UnicodeDecodeError"])

Analyze ==
    /\ pc = "idle"
    /\ result' = analyze(ThePath, content)
    /\ pc' = IF analyze(ThePath, content).outcome = "return" THEN "returned" ELSE "raised"
    /\ UNCHANGED <<content, wpc, fs, root, pending, results, log, calls>>

NextCall ==
    /\ pc # "idle"
    /\ pc' = "idle" /\ result' = NotCalled
    /\ UNCHANGED <<content, wpc, fs, root, pending, results, log, calls>>

Next ==
    \/ WriteNode \/ WriteEnd \/ WriteParameter \/ DropDocstring \/ WriteOperands
    \/ WriteLine \/ BreakSyntax \/ BreakEncoding
    \/ Analyze \/ NextCall

Spec == Init /\ [][Next]_vars

(***************************************************************************)
(* Paths.  A string is a sequence of pieces, none of which contains a      *)
(* skipped name except by being one; str(path) joins the names with "/".   *)
(***************************************************************************)
SkippedNames == {<<"venv">>, <<"__pycache__">>, <<".git">>, <<"node_modules">>}

DirNames == SkippedNames \cup {<<"src">>, <<".git", "hub">>}

FileNames == {<<"a", ".py">>, <<"venv", "_utils", ".py">>, <<"b", ".txt">>}

\* `sub in s`
Contains(sub, s) ==
    \E i \in 1..(Len(s) - Len(sub) + 1) : SubSeq(s, i, i + Len(sub) - 1) = sub

RECURSIVE Join(_)
Join(names) ==
    IF names = <<>> THEN <<>> ELSE <<"/">> \o Head(names) \o Join(Tail(names))

\* Path.suffix of a path whose last name is `name`
suffix(name) ==
    IF Len(name) > 1 /\ name[Len(name)] \in {".py", ".txt"} THEN name[Len(name)] ELSE ""

\* self.analyzers.keys()
analyzers == {".py"}

Entry(d, n, c) == [dirs |-> d, name |-> n, content |-> c]

\* str(file_path) of an entry found below the root
PathStr(r, e) == r.path \o Join(e.dirs) \o Join(<<e.name>>)

\* the contents of the files of a walk: one MISSING_DOCSTRING, a syntax
\* error on line 1, bytes that do not decode
OneIssueFile ==
    Content("ok", "ok", NoLine,
            <<[PlainNode("FunctionDef", 0, 1) EXCEPT !.docstring = None]>>, <<>>)
SyntaxErrorFile == Content("ok", "SyntaxError", 1, <<>>, <<>>)
UndecodableFile == Content("UnicodeDecodeError", "ok", NoLine, <<>>, <<>>)

WalkContents == {OneIssueFile, SyntaxErrorFile, UndecodableFile}

Roots ==
    {[type |-> "dir", path |-> pth, content |-> EmptyFile] :
        pth \in {<<"proj">>, <<".git", "hub", "/", "proj">>}}
    \cup {[type |-> "missing", path |-> <<"gone">>, content |-> EmptyFile]}
    \cup {[type |-> "file", path |-> n, content |-> c] :
            n \in FileNames, c \in WalkContents}

RECURSIVE FsSize(_)
FsSize(files) ==
    IF files = {} THEN 0
    ELSE LET e == CHOOSE x \in files : TRUE
         IN 1 + Len(e.dirs) + FsSize(files \ {e})

(***************************************************************************)
(* Log events: logger.error, logger.warning and log_operation.  detail is  *)
(* what the text of the event is formatted from.                           *)
(***************************************************************************)
Event(lv, st, d) == [level |-> lv, status |-> st, detail |-> d]

(***************************************************************************)
(* CodeAnalyzer.analyze_file on a path p with content c: the outcome of    *)
(* the call and the events it logs.                                        *)
(***************************************************************************)
analyze_file(p, name, c, exists) ==
    IF ~exists
    THEN [call |-> Returned(NoResult), none |-> TRUE,
          events |-> <<Event("ERROR", None, p)>>]
    ELSE IF suffix(name) \notin analyzers
    THEN [call |-> Returned(NoResult), none |-> TRUE,
          events |-> <<Event("WARNING", None, suffix(name))>>]
    ELSE IF analyze(p, c).outcome = "raise"
    THEN [call |-> analyze(p, c), none |-> FALSE,
          events |-> <<Event("INFO", "STARTED", p)>>]
    ELSE [call |-> analyze(p, c), none |-> FALSE,
          events |-> <<Event("INFO", "STARTED", p),
                       Event("INFO", "COMPLETED", Len(analyze(p, c).value.issues))>>]

\* path.rglob("*" + ext) for each ext of the analyzers
rglob(files) == {e \in files : suffix(e.name) \in analyzers}

\* the skip of line 253 with "venv" alone in the list
Skipped_VenvOnly(r, e) == Contains(<<"venv">>, PathStr(r, e))

\* line 253: the path is skipped
Skipped(r, e) == \E skip \in SkippedNames : Contains(skip, PathStr(r, e))

(***************************************************************************)
(* WalkSpec: files are created below the root directory, then              *)
(* analyze_path runs, one match of rglob per step.                         *)
(***************************************************************************)
AnalyzeUnchanged == UNCHANGED <<pc, content, result, calls>>

CreateFile ==
    /\ wpc = "idle"
    /\ \E d \in {<<>>} \cup {<<x>> : x \in DirNames}
                \cup {<<x, y>> : x \in DirNames, y \in DirNames},
          n \in FileNames, c \in WalkContents :
          /\ \A e \in fs : e.dirs # d \/ e.name # n
          /\ FsSize(fs \cup {Entry(d, n, c)}) <= MaxFsSize
          /\ fs' = fs \cup {Entry(d, n, c)}
    /\ UNCHANGED <<wpc, root, pending, results, log>>
    /\ AnalyzeUnchanged

\* analyze_file(path) called on its own, on a path that exists or not
CallAnalyzeFile ==
    /\ wpc = "idle" /\ fs = {}
    /\ \E n \in FileNames, c \in WalkContents, exists \in BOOLEAN :
          /\ root' = [type |-> IF exists THEN "file_arg" ELSE "missing_arg",
                       path |-> n, content |-> IF exists THEN c ELSE EmptyFile]
          /\ LET got == analyze_file(n, n, c, exists) IN
                /\ log' = log \o got.events
                /\ results' = IF got.call.outcome = "return" /\ ~got.none
                              THEN <<got.call.value>> ELSE <<>>
                /\ wpc' = IF got.call.outcome = "return" THEN "returned" ELSE "raised"
    /\ UNCHANGED <<fs, pending>>
    /\ AnalyzeUnchanged

\* analyze_path(path) with path a file: lines 245-248
CallOnFile ==
    /\ wpc = "idle" /\ fs = {}
    /\ \E r \in Roots :
          /\ r.type = "file"
          /\ root' = r
          /\ LET got == analyze_file(r.path, r.path, r.content, TRUE) IN
                /\ log' = log \o got.events
                /\ results' = IF got.call.outcome = "return" /\ ~got.none
                              THEN <<got.call.value>> ELSE <<>>
                /\ wpc' = IF got.call.outcome = "return" THEN "returned" ELSE "raised"
    /\ UNCHANGED <<fs, pending>>
    /\ AnalyzeUnchanged

\* analyze_path(path) with path a directory: the walk starts
CallOnDir ==
    /\ wpc = "idle"
    /\ \E r \in Roots :
          /\ r.type = "dir"
          /\ root' = r
          /\ pending' = rglob(fs)
          /\ wpc' = "walking"
    /\ UNCHANGED <<fs, results, log>>
    /\ AnalyzeUnchanged

\* analyze_path(path) with path neither a file nor a directory
CallOnMissing ==
    /\ wpc = "idle" /\ fs = {}
    /\ \E r \in Roots :
          /\ r.type = "missing"
          /\ root' = r
          /\ wpc' = "returned"
    /\ UNCHANGED <<fs, pending, results, log>>
    /\ AnalyzeUnchanged

\* one turn of the loop of line 251, on a match rglob yields in any order
WalkStep ==
    /\ wpc = "walking"
    /\ \E e \in pending :
          /\ pending' = pending \ {e}
          /\ IF Skipped(root, e)
             THEN UNCHANGED <<wpc, results, log>>
             ELSE LET got == analyze_file(PathStr(root, e), e.name, e.content, TRUE) IN
                     /\ log' = log \o got.events
                     /\ results' = IF got.call.outcome = "return" /\ ~got.none
                                   THEN Append(results, got.call.value) ELSE results
                     /\ wpc' = IF got.call.outcome = "return" THEN "walking" ELSE "raised"
    /\ UNCHANGED <<fs, root>>
    /\ AnalyzeUnchanged

\* line 259: the loop is over
WalkReturn ==
    /\ wpc = "walking" /\ pending = {}
    /\ wpc' = "returned"
    /\ UNCHANGED <<fs, root, pending, results, log>>
    /\ AnalyzeUnchanged

WalkNext ==
    \/ CreateFile
    \/ CallAnalyzeFile
    \/ CallOnFile \/ CallOnDir \/ CallOnMissing
    \/ WalkStep \/ WalkReturn

WalkSpec == Init /\ [][WalkNext]_vars

(***************************************************************************)
(* RepeatSpec: self.analyzers holds one PythonAnalyzer for the life of the *)
(* CodeAnalyzer; its analyze is called on one file after another, and the  *)
(* files are written and rewritten between the calls.                      *)
(***************************************************************************)
\* a file whose only line is too long, has a pending marker, a bare except
\* and a print call
LexicalFile ==
    Content("ok", "ok", NoLine, <<>>,
            <<Line(MAX_LINE_LENGTH + 1, 1, 1, TRUE, FALSE, FALSE, FALSE)>>)

RepeatContents == WalkContents \cup {LexicalFile}

RepeatNames == {n \in FileNames : suffix(n) \in analyzers}

Call(p, c, r) == [path |-> p, content |-> c, call |-> r]

\* a file is created, or written anew
WriteFile ==
    /\ \E n \in RepeatNames, c \in RepeatContents :
          /\ Entry(<<>>, n, c) \notin fs
          /\ fs' = {e \in fs : e.name # n} \cup {Entry(<<>>, n, c)}
    /\ UNCHANGED <<pc, content, result, wpc, root, pending, results, log, calls>>

\* self.analyzers[".py"].analyze(path) on one of the files
AnalyzeCall ==
    /\ Len(calls) < MaxCalls
    /\ \E e \in fs :
          calls' = Append(calls, Call(e.name, e.content, analyze(e.name, e.content)))
    /\ UNCHANGED <<pc, content, result, wpc, fs, root, pending, results, log>>

RepeatNext == WriteFile \/ AnalyzeCall

RepeatSpec == Init /\ [][RepeatNext]_vars

(***************************************************************************)
(* What the claims speak of.                                               *)
(***************************************************************************)
\* analyze has returned the result of a file that was read and parsed
Parsed == pc = "returned" /\ content.read = "ok" /\ content.parse = "ok"

Issues == result.value.issues

CountIssues(P(_)) == Len(SelectSeq(Issues, P))

\* the issues of the given kinds on line i
IssuesAt(i, types) ==
    SelectSeq(Issues, LAMBDA x : x.line = i /\ x.issue_type \in types)

FunctionIssueTypes ==
    {"LONG_FUNCTION", "MISSING_DOCSTRING", "TOO_MANY_PARAMETERS", "HIGH_COMPLEXITY"}

LexicalIssueTypes == {"LINE_TOO_LONG", "PENDING_TASK", "BARE_EXCEPT", "PRINT_STATEMENT"}

\* node j lies in the subtree of node i
RECURSIVE IsUnder(_, _, _)
IsUnder(t, j, i) ==
    IF j = 0 THEN FALSE
    ELSE t[j].parent = i \/ IsUnder(t, t[j].parent, i)

Under(t, i) == {j \in 1..Len(t) : IsUnder(t, j, i)}

RECURSIVE ExtraOperands(_, _)
ExtraOperands(t, S) ==
    IF S = {} THEN 0
    ELSE LET j == CHOOSE x \in S : TRUE
         IN (IF t[j].kind = "BoolOp" THEN t[j].values - 1 ELSE 0)
                + ExtraOperands(t, S \ {j})

\* 1, plus one for each conditional, loop and handler below node i, plus
\* k - 1 for each boolean combination of k operands below it
Score(t, i) ==
    1 + Cardinality({j \in Under(t, i) : t[j].kind \in DecisionKinds})
      + ExtraOperands(t, Under(t, i))

Span(nd) == nd.end_lineno - nd.lineno + 1

(***************************************************************************)
(* C1.  analyze on a file whose content does not parse returns a result    *)
(* with exactly one issue, SYNTAX_ERROR of severity HIGH, on the line the  *)
(* error reports or on line 0 when it reports none, and with no metrics:   *)
(* no function, class or lexical rule adds an issue.                       *)
(***************************************************************************)
C1_SyntaxErrorOnly ==
    (pc # "idle" /\ content.read = "ok" /\ content.parse = "SyntaxError") =>
        /\ pc = "returned"
        /\ Len(Issues) = 1
        /\ Issues[1].issue_type = "SYNTAX_ERROR"
        /\ Issues[1].severity = "HIGH"
        /\ Issues[1].line = (IF content.errline = NoLine THEN 0 ELSE content.errline)
        /\ DOMAIN result.value.metrics = {}

\* a file whose first line is overlong, starts with a print call and holds a
\* bare except does not parse, the error reports no line, and analyze has
\* returned
C1_Witness ==
    /\ pc = "returned" /\ content.parse = "SyntaxError" /\ content.errline = NoLine
    /\ Len(content.head) >= 1
    /\ content.head[1].len > MAX_LINE_LENGTH
    /\ content.head[1].print /\ content.head[1].bare_excepts > 0

(***************************************************************************)
(* C6.  For every function node the complexity is 1 plus one for each      *)
(* conditional, loop or handler in the function plus k - 1 for each        *)
(* boolean combination of k operands; it is at least 1, exactly 1 without  *)
(* branches, and HIGH_COMPLEXITY (HIGH) is emitted for the function        *)
(* exactly when the score exceeds MAX_COMPLEXITY.                          *)
(***************************************************************************)
ComplexityAsClaimed(t, i) ==
    /\ _calculate_complexity(t, i) = Score(t, i)
    /\ Score(t, i) >= 1
    /\ (\A j \in Under(t, i) : t[j].kind \notin DecisionKinds \cup {"BoolOp"})
            => Score(t, i) = 1
    /\ Len(IssuesAt(t[i].lineno, {"HIGH_COMPLEXITY"}))
            = (IF Score(t, i) > MAX_COMPLEXITY THEN 1 ELSE 0)
    /\ \A n \in 1..Len(Issues) :
            Issues[n].issue_type = "HIGH_COMPLEXITY" => Issues[n].severity = "HIGH"

C6_Claim ==
    Parsed => \A i \in 1..Len(content.tree) :
        content.tree[i].kind \in FunctionKinds => ComplexityAsClaimed(content.tree, i)

\* the same of the functions _analyze_functions evaluates
C6_OnFunctionDef ==
    Parsed => \A i \in 1..Len(content.tree) :
        content.tree[i].kind = "FunctionDef" => ComplexityAsClaimed(content.tree, i)

(***************************************************************************)
(* C7.  Every function declaration and every class declaration anywhere    *)
(* in the tree, async functions included, is evaluated against the         *)
(* function or class rules exactly once per analyze call: each declaration *)
(* without docstring text gets exactly one MISSING_DOCSTRING on its line,  *)
(* each one with a docstring text none.                                    *)
(***************************************************************************)
EvaluatedOnce(t, i) ==
    Len(IssuesAt(t[i].lineno, {"MISSING_DOCSTRING"}))
        = (IF t[i].docstring \in {None, ""} THEN 1 ELSE 0)

C7_Claim ==
    Parsed => \A i \in 1..Len(content.tree) :
        content.tree[i].kind \in DeclarationKinds => EvaluatedOnce(content.tree, i)

\* the same of the declarations that are not async functions
C7_OnFunctionDefAndClassDef ==
    Parsed => \A i \in 1..Len(content.tree) :
        content.tree[i].kind \in {"FunctionDef", "ClassDef"}
            => EvaluatedOnce(content.tree, i)

(***************************************************************************)
(* C8.  The function rules fire independently and at most once each per    *)
(* function: a function with 6 parameters, no docstring and a 1-line body  *)
(* yields exactly MISSING_DOCSTRING (LOW) and TOO_MANY_PARAMETERS (MEDIUM) *)
(* on its start line; TOO_MANY_PARAMETERS is emitted once when the         *)
(* parameter count exceeds 5 and never when it is 5 or fewer.              *)
(***************************************************************************)
TypesAndSeverities(is) == [n \in 1..Len(is) |-> <<is[n].issue_type, is[n].severity>>]

ParametersAsClaimed(t, i) ==
    /\ (t[i].args = MAX_PARAMETERS + 1 /\ t[i].docstring = None
            /\ t[i].end_lineno = t[i].lineno /\ Under(t, i) = {})
         => TypesAndSeverities(IssuesAt(t[i].lineno, FunctionIssueTypes))
                = <<(<<"MISSING_DOCSTRING", "LOW">>), (<<"TOO_MANY_PARAMETERS", "MEDIUM">>)>>
    /\ Len(IssuesAt(t[i].lineno, {"TOO_MANY_PARAMETERS"}))
            = (IF t[i].args > MAX_PARAMETERS THEN 1 ELSE 0)
    /\ \A ty \in FunctionIssueTypes : Len(IssuesAt(t[i].lineno, {ty})) <= 1

C8_Claim ==
    Parsed => \A i \in 1..Len(content.tree) :
        content.tree[i].kind \in FunctionKinds => ParametersAsClaimed(content.tree, i)

\* the same of the functions _analyze_functions evaluates
C8_OnFunctionDef ==
    Parsed => \A i \in 1..Len(content.tree) :
        content.tree[i].kind = "FunctionDef" => ParametersAsClaimed(content.tree, i)

(***************************************************************************)
(* C9.  A function whose span end_lineno - lineno + 1 is                   *)
(* MAX_FUNCTION_LENGTH produces no LONG_FUNCTION, one whose span is        *)
(* MAX_FUNCTION_LENGTH + 1 exactly one, of severity MEDIUM, on its start   *)
(* line; a function whose end line is unknown has span 0 and produces      *)
(* none.                                                                   *)
(***************************************************************************)
LengthAsClaimed(t, i) ==
    LET long == IssuesAt(t[i].lineno, {"LONG_FUNCTION"}) IN
    /\ (t[i].end_lineno # NoLine /\ Span(t[i]) = MAX_FUNCTION_LENGTH) => long = <<>>
    /\ (t[i].end_lineno # NoLine /\ Span(t[i]) = MAX_FUNCTION_LENGTH + 1)
            => Len(long) = 1 /\ long[1].severity = "MEDIUM"
    /\ t[i].end_lineno = NoLine => func_lines(t[i]) = 0 /\ long = <<>>

C9_Claim ==
    Parsed => \A i \in 1..Len(content.tree) :
        content.tree[i].kind \in FunctionKinds => LengthAsClaimed(content.tree, i)

\* the same of the functions _analyze_functions evaluates
C9_OnFunctionDef ==
    Parsed => \A i \in 1..Len(content.tree) :
        content.tree[i].kind = "FunctionDef" => LengthAsClaimed(content.tree, i)

(***************************************************************************)
(* C10.  In the lexical scan of a parsed file a line of 121 characters     *)
(* yields exactly one LINE_TOO_LONG (LOW) with that line's 1-based number, *)
(* a line of 120 characters yields none, and each lexical rule adds at     *)
(* most one issue per line.                                                *)
(***************************************************************************)
C10_LineTooLong ==
    Parsed => \A i \in 1..Len(split(content)) :
        LET long == IssuesAt(i, {"LINE_TOO_LONG"}) IN
        /\ split(content)[i].len = MAX_LINE_LENGTH + 1
                => Len(long) = 1 /\ long[1].severity = "LOW"
        /\ split(content)[i].len = MAX_LINE_LENGTH => long = <<>>
        /\ \A ty \in LexicalIssueTypes : Len(IssuesAt(i, {ty})) <= 1

\* a parsed file has a line of 121 characters, a line of 120 and a line
\* where the pending-task expression matches twice
C10_Witness ==
    /\ Parsed
    /\ \E i, j, k \in 1..Len(content.head) :
          /\ content.head[i].len = MAX_LINE_LENGTH + 1
          /\ content.head[j].len = MAX_LINE_LENGTH
          /\ content.head[k].markers > 1

(***************************************************************************)
(* What the claims about a walk speak of.                                  *)
(***************************************************************************)
\* the results analyze_path holds for entry e
ResultsFor(e) ==
    SelectSeq(results, LAMBDA r : r.file_path = PathStr(root, e))

\* one of the directories between the root and e has a skipped name
InSkippedDir(e) == \E k \in 1..Len(e.dirs) : e.dirs[k] \in SkippedNames

\* e has a registered extension and analyze returns a result for its content
Analyzable(e) ==
    suffix(e.name) \in analyzers /\ analyze(PathStr(root, e), e.content).outcome = "return"

Logged(levels) == \E n \in 1..Len(log) : log[n].level \in levels

(***************************************************************************)
(* C2.  In a directory walk no failure while analyzing one file (a syntax  *)
(* error, content that cannot be decoded) prevents the analysis of the     *)
(* others: analyze_path does not raise and returns a result for every      *)
(* other analyzable file of the walk.                                      *)
(***************************************************************************)
C2_Claim ==
    root.type = "dir" =>
        /\ wpc # "raised"
        /\ wpc = "returned" =>
              \A e \in fs : (Analyzable(e) /\ ~Skipped(root, e)) => Len(ResultsFor(e)) >= 1

\* the same of the walks all of whose files decode
C2_WhenAllDecode ==
    (root.type = "dir" /\ \A e \in fs : e.content.read = "ok") =>
        /\ wpc # "raised"
        /\ wpc = "returned" =>
              \A e \in fs : (Analyzable(e) /\ ~Skipped(root, e)) => Len(ResultsFor(e)) >= 1

(***************************************************************************)
(* C3.  analyze_path on a root path that does not exist logs an ERROR or   *)
(* WARNING event, does not raise, and returns no results.                  *)
(***************************************************************************)
C3_Claim ==
    (root.type = "missing" /\ wpc # "idle") =>
        /\ wpc = "returned"
        /\ results = <<>>
        /\ Logged({"ERROR", "WARNING"})

\* what the call does: it returns no results and logs nothing
C3_ReturnsSilently ==
    (root.type = "missing" /\ wpc # "idle") =>
        wpc = "returned" /\ results = <<>> /\ log = <<>>

(***************************************************************************)
(* C4.  For a directory root the results of analyze_path never contain a   *)
(* file inside a directory named venv, __pycache__, .git or node_modules,  *)
(* however deep that directory is below the root.                          *)
(***************************************************************************)
C4_NoSkippedDirectory ==
    root.type = "dir" => \A e \in fs : InSkippedDir(e) => ResultsFor(e) = <<>>

\* the walk has returned from a root with a clean Python file two
\* directories down, the inner one with a skipped name other than venv
C4_Witness ==
    /\ root.type = "dir" /\ wpc = "returned"
    /\ \E e \in fs :
          /\ Len(e.dirs) = 2
          /\ e.dirs[1] \notin SkippedNames
          /\ e.dirs[2] \in SkippedNames \ {<<"venv">>}
          /\ e.name = <<"a", ".py">>
          /\ e.content = OneIssueFile

(***************************************************************************)
(* C5.  For a directory root analyze_path returns exactly one result for   *)
(* every file below the root with a registered extension none of whose     *)
(* directories is named venv, __pycache__, .git or node_modules: a file is *)
(* left out only for a directory with such a name, not for the name being  *)
(* a substring of the file name, of another directory name or of the root. *)
(***************************************************************************)
C5_Claim ==
    (root.type = "dir" /\ wpc = "returned") =>
        \A e \in fs :
            Len(ResultsFor(e))
                = (IF suffix(e.name) \in analyzers /\ ~InSkippedDir(e) THEN 1 ELSE 0)

HasTotalLines == "total_lines" \in DOMAIN result.value.metrics

\* line 0 is that of a syntax error without a line, and of nothing else
ZeroOnlyWithoutPosition ==
    \A k \in 1..Len(Issues) :
        Issues[k].line = 0
            => /\ Issues[k].issue_type = "SYNTAX_ERROR"
               /\ content.errline \in {NoLine, 0}

\* the total_lines metric; a result without it counts no line
TotalLines == IF HasTotalLines THEN result.value.metrics.total_lines ELSE 0

C12_Claim ==
    pc = "returned" =>
        /\ \A k \in 1..Len(Issues) : Issues[k].line \in 0..TotalLines
        /\ ZeroOnlyWithoutPosition

(***************************************************************************)
(* C12 as amended.  A result with a total_lines metric is that of a file   *)
(* that parsed, and each of its issues lies on a line in                   *)
(* [1, total_lines]; a result without it is that of a syntax error, whose  *)
(* issue is on the line the error reports, or on line 0 when it reports    *)
(* none; line 0 is used for nothing else.                                  *)
(***************************************************************************)
C12_WithinParsedText ==
    pc = "returned" =>
        /\ HasTotalLines <=> content.parse = "ok"
        /\ HasTotalLines =>
              \A k \in 1..Len(Issues) : Issues[k].line \in 1..TotalLines
        /\ ~HasTotalLines =>
              \A k \in 1..Len(Issues) :
                  Issues[k].line = (IF content.errline = NoLine THEN 0
                                    ELSE content.errline)
        /\ ZeroOnlyWithoutPosition

\* a text of several lines with an issue on its first line and an issue
\* on its last
C12_Witness ==
    /\ Parsed
    /\ TotalLines >= 2
    /\ \E k \in 1..Len(Issues) : Issues[k].line = 1
    /\ \E k \in 1..Len(Issues) : Issues[k].line = TotalLines

(***************************************************************************)
(* C13.  Every file that is analyzed gets a STARTED event followed by a    *)
(* COMPLETED event whose detail is the number of issues of the file's      *)
(* result; the events of different files do not interleave; a file that is *)
(* missing or has an unsupported extension gets an ERROR or a WARNING and  *)
(* neither STARTED nor COMPLETED.                                          *)
(***************************************************************************)
\* the log is made of one ERROR or WARNING for a file that is left out and
\* of STARTED, COMPLETED for a file with a result, the files with a result
\* being those of rs in their order
RECURSIVE LogMatches(_, _)
LogMatches(lg, rs) ==
    IF lg = <<>> THEN rs = <<>>
    ELSE IF lg[1].level \in {"ERROR", "WARNING"} THEN LogMatches(Tail(lg), rs)
    ELSE /\ lg[1].status = "STARTED"
         /\ Len(lg) >= 2 /\ lg[2].status = "COMPLETED"
         /\ rs # <<>>
         /\ lg[1].detail = rs[1].file_path
         /\ lg[2].detail = Len(rs[1].issues)
         /\ LogMatches(Tail(Tail(lg)), Tail(rs))

\* the files handed to analyze_file that exist and have an analyzer
Started(p) == \E k \in 1..Len(log) : log[k].status = "STARTED" /\ log[k].detail = p

EventsAsClaimed ==
    /\ LogMatches(log, results)
    /\ (root.type = "dir" /\ wpc = "returned") =>
          \A e \in fs :
              (suffix(e.name) \in analyzers /\ ~Skipped(root, e))
                  => Started(PathStr(root, e))
    /\ (root.type \in {"file", "file_arg"} /\ suffix(root.path) \in analyzers)
          => Started(root.path)
    /\ (root.type \in {"file", "file_arg"} /\ suffix(root.path) \notin analyzers)
          => Len(log) = 1 /\ log[1].level = "WARNING"
    /\ root.type = "missing_arg" => Len(log) = 1 /\ log[1].level = "ERROR"

C13_Claim == wpc # "idle" => EventsAsClaimed

\* the same of the calls that do not raise
C13_WhenNoneRaises == wpc \in {"walking", "returned"} => EventsAsClaimed

(***************************************************************************)
(* C14.  The complexity of nested declarations is flat: the decision       *)
(* points inside a function g declared anywhere inside a function f count  *)
(* toward the score of g and toward the score of f, so complexity(f) is 1  *)
(* plus the decision points of the whole subtree of f, the bodies of the   *)
(* functions and classes nested in it included, and                        *)
(* complexity(f) >= complexity(g).                                         *)
(***************************************************************************)
\* what the nodes of S add to a score
Points(t, S) ==
    Cardinality({j \in S : t[j].kind \in DecisionKinds}) + ExtraOperands(t, S)

Functions(t) == {i \in 1..Len(t) : t[i].kind \in FunctionKinds}

FlatPolicy(t, f) ==
    /\ _calculate_complexity(t, f) = 1 + Points(t, Under(t, f))
    /\ \A g \in Functions(t) \cap Under(t, f) :
          /\ _calculate_complexity(t, f)
                = _calculate_complexity(t, g) + Points(t, Under(t, f) \ Under(t, g))
          /\ _calculate_complexity(t, f) >= _calculate_complexity(t, g)
          \* reported for g, the score is reported for f as well
          /\ (IsFunction(t, f) /\ IssuesAt(t[g].lineno, {"HIGH_COMPLEXITY"}) # <<>>)
                => \E n \in 1..Len(Issues) :
                      /\ Issues[n].line = t[f].lineno
                      /\ Issues[n].issue_type = "HIGH_COMPLEXITY"
                      /\ Issues[n].message[1] = 1 + Points(t, Under(t, f))

C14_FlatPolicy ==
    Parsed => \A f \in Functions(content.tree) : FlatPolicy(content.tree, f)

\* a function declared inside a function has a decision point
C14_Witness ==
    /\ Parsed
    /\ \E f \in Functions(content.tree) :
          \E g \in Functions(content.tree) \cap Under(content.tree, f) :
              /\ Points(content.tree, Under(content.tree, g)) >= 1
              /\ _calculate_complexity(content.tree, f) >= 2

====
